---- MODULE Spec2Model ----
(***************************************************************************)
(* RS485Master.js: the bus master of a multi-drop RS-485 network of        *)
(* temperature nodes.  The model covers the protocol engine: reset,        *)
(* discovery, the confirmation handshake, round-robin polling and the      *)
(* fault handler, with every setTimeout callback as a pending timer.       *)
(*                                                                         *)
(* A message is the sequence of its comma-separated tokens: "D1" is        *)
(* <<"D1">>, "D1,23.5" is <<"D1", "23.5">>, the empty message is <<"">>.   *)
(* message.includes(",") is Len(m) > 1 and message.split(",")[0] is m[1].  *)
(* A JavaScript object used as a map is a function whose DOMAIN is the set *)
(* of keys that were assigned.                                             *)
(*                                                                         *)
(* The frame codec (calculateCRC, the frames written, processSerialBuffer  *)
(* and the CRC check of handleSerialData) is modelled on characters: there *)
(* a string is the sequence of its character codes.                        *)
(***************************************************************************)
EXTENDS Integers, Sequences, FiniteSets, TLC

VARIABLES
  connected,            \* reader/writer exist (connectSerial got past line 44)
  deviceAddresses,      \* line 8
  deviceTemperatures,   \* line 9
  connectedDevices,     \* line 10
  confirmationRetries,  \* line 11
  errorCounters,        \* line 12
  discoveryAttempts,    \* line 13
  currentDeviceIndex,   \* line 18 (0-based, as in the source)
  isSampling,           \* line 19
  timers,               \* the pending setTimeout callbacks, oldest first
  out,                  \* the payloads handed to writer.write by the last step
  resets,               \* reset clicks so far
  frames,               \* non-empty lines handed to handleSerialData so far (up to Countable)
  faults,               \* corrupted lines received so far
  discoverSent,         \* DISCOVER frames written since the last resetDiscovery
  outstanding,          \* READTEMP frames written since the last frame resolution
  asked,                \* the bus: addresses polled by READTEMP and not answered yet
  polls,                \* READTEMP frames written since the last resetDiscovery (up to Countable)
  serialBuffer,         \* line 20
  wire,                 \* the bytes of a frame that reader.read has yet to deliver
  sent,                 \* the message that was framed, and the bit damaged on the way
  received              \* the non-empty lines handleSerialData got, as it judged them

engine == <<connected, deviceAddresses, deviceTemperatures, connectedDevices,
            confirmationRetries, errorCounters, discoveryAttempts,
            currentDeviceIndex, isSampling, timers, out, resets, frames, faults,
            discoverSent, outstanding, asked, polls>>

codec == <<serialBuffer, wire, sent, received>>

vars == <<engine, codec>>

(***************************************************************************)
(* Program constants.                                                      *)
(***************************************************************************)
maxDiscoveryAttempts == 1000
waitTime == 100
connectedMessageRetries == 3
maxErrorCount == 5
discoveryTarget == 4
resetDelay == 1000
connectDelay == 2000
confirmDelay == 100
\* ... of the frame codec
InitialCrc == 65535
TopBit == 32768
Polynomial == 4129
Word == 65536
Comma == 44
LineFeed == 10
Radix == 16
Replacement == 65533

(***************************************************************************)
(* Bounds of the exploration.                                              *)
(***************************************************************************)
MaxResets == 1
MaxFrames == 5
MaxFaults == 1
MaxRounds == 2
MaxTimers == 5
MaxStale == 2
\* ... of SpecCap
CapResets == 1
CapFrames == 1
\* ... of SpecFault
FaultFrames == 9
FaultLines == 7
\* ... of SpecReading
ReadFrames == 5
ReadRounds == 1
\* ... of SpecLive
LiveFrames == 4
LiveFaults == 1
Countable == 12
\* ... of SpecCodec
MaxLen == 2
\* ... of SpecShake
ShakeResets == 1
ShakeFrames == 3

Addresses == {"A", "B", "C", "D"}
Values == {"v"}

\* The order of the addresses.
Rank(a) == CASE a = "" -> 0 [] a = "A" -> 1 [] a = "B" -> 2 [] a = "C" -> 3 [] a = "D" -> 4
Less(a, b) == Rank(a) < Rank(b)

(***************************************************************************)
(* JavaScript objects and arrays.                                          *)
(***************************************************************************)
EmptyMap == [k \in {} |-> 0]

Put(f, k, v) == [x \in (DOMAIN f) \cup {k} |-> IF x = k THEN v ELSE f[x]]

\* !!obj[k] for a map of booleans: a missing key reads undefined, which is falsy.
Truthy(f, k) == k \in DOMAIN f /\ f[k] = TRUE

\* obj[k] || 0
OrZero(f, k) == IF k \in DOMAIN f THEN f[k] ELSE 0

\* deviceAddresses.includes(m)
Includes(m) == \E i \in 1..Len(deviceAddresses) : deviceAddresses[i] = m

\* deviceAddresses[currentDeviceIndex]: undefined past the end of the array.
HasCurrent == currentDeviceIndex < Len(deviceAddresses)
Current == deviceAddresses[currentDeviceIndex + 1]

\* !address at line 154: undefined and the empty string are both falsy.
Falsy(m) == m = <<"">>

RemoveAt(s, i) == SubSeq(s, 1, i - 1) \o SubSeq(s, i + 1, Len(s))

\* One more line or poll, for the tallies frames and polls: they stop at
\* Countable, past every number of lines or polls a property looks at.
Count(n) == IF n < Countable THEN n + 1 ELSE n

(***************************************************************************)
(* Timers.  setTimeout(f, d) appends a callback; a callback may run only   *)
(* after every callback that was scheduled before it with a delay no       *)
(* longer than its own (the ordering setTimeout guarantees).               *)
(***************************************************************************)
Timer(k, d, a, n) == [kind |-> k, delay |-> d, address |-> a, i |-> n]

NoAddress == <<>>

MayRun(i) == \A j \in 1..(i - 1) : timers[j].delay > timers[i].delay

Schedule(ts, k, d, a, n) == Append(ts, Timer(k, d, a, n))

(***************************************************************************)
(* Types of the scalar state, and the state after the script has loaded    *)
(* (lines 8-20): nothing connected, nothing registered, nothing pending.   *)
(***************************************************************************)
TypeOK ==
  /\ connected \in BOOLEAN
  /\ isSampling \in BOOLEAN
  /\ discoveryAttempts \in 0..maxDiscoveryAttempts
  /\ currentDeviceIndex \in Nat

Init ==
  /\ connected = FALSE
  /\ deviceAddresses = <<>>
  /\ deviceTemperatures = EmptyMap
  /\ connectedDevices = EmptyMap
  /\ confirmationRetries = EmptyMap
  /\ errorCounters = EmptyMap
  /\ discoveryAttempts = 0
  /\ currentDeviceIndex = 0
  /\ isSampling = FALSE
  /\ timers = <<>>
  /\ out = <<>>
  /\ resets = 0
  /\ faults = 0
  /\ discoverSent = 0
  /\ outstanding = 0
  /\ asked = <<>>
  /\ polls = 0
  /\ frames = 0
  /\ serialBuffer = <<>>
  /\ wire = <<>>
  /\ sent = <<>>
  /\ received = <<>>

(***************************************************************************)
(* resetDiscovery (lines 211-229).  ts are the callbacks still pending and *)
(* more the ones the caller schedules after it returns.                    *)
(***************************************************************************)
KeptErrorCounters == errorCounters

\* errorCounters = {} (line 221)
ResetErrorCounters == EmptyMap

ResetDiscovery(ts, more) ==
  /\ out' = << <<"RESET">> >>
  /\ deviceAddresses' = <<>>
  /\ deviceTemperatures' = EmptyMap
  /\ connectedDevices' = EmptyMap
  /\ confirmationRetries' = EmptyMap
  /\ errorCounters' = ResetErrorCounters
  /\ discoveryAttempts' = 0
  /\ currentDeviceIndex' = 0
  /\ isSampling' = FALSE
  /\ timers' = Schedule(ts, "startDiscovery", resetDelay, NoAddress, 0) \o more
  /\ discoverSent' = 0
  /\ outstanding' = 0
  /\ polls' = 0

\* connectSerial (lines 38-57), once requestPort and open have succeeded.
ConnectSerial ==
  /\ ~connected
  /\ connected' = TRUE
  /\ ResetDiscovery(timers, <<Timer("startDiscovery", connectDelay, NoAddress, 0)>>)
  /\ UNCHANGED <<resets, frames, faults>>

\* A click on resetButton (line 245), enabled once connected (line 50).
ResetClick ==
  /\ connected
  /\ ResetDiscovery(timers, <<>>)
  /\ resets' = resets + 1
  /\ UNCHANGED <<connected, frames, faults>>

(***************************************************************************)
(* startDiscovery (lines 187-209) up to the setTimeout of line 199.        *)
(***************************************************************************)
AttemptsExceeded == discoveryAttempts > maxDiscoveryAttempts

\* discoveryAttempts >= maxDiscoveryAttempts (line 188)
AttemptsExhausted == discoveryAttempts >= maxDiscoveryAttempts

StartDiscovery(ts) ==
  IF AttemptsExhausted
  THEN /\ timers' = ts
       /\ out' = <<>>
       /\ UNCHANGED <<discoveryAttempts, discoverSent>>
  ELSE /\ discoveryAttempts' = discoveryAttempts + 1
       /\ out' = << <<"DISCOVER">> >>
       /\ discoverSent' = discoverSent + 1
       /\ timers' = Schedule(ts, "reeval", waitTime, NoAddress, 0)

(***************************************************************************)
(* requestTemperature (lines 231-239); sampling is isSampling as the       *)
(* caller left it.                                                         *)
(***************************************************************************)
RequestTemperature(ts, sampling) ==
  /\ timers' = ts
  /\ IF Len(deviceAddresses) = 0 \/ ~sampling
     THEN /\ out' = <<>>
          /\ UNCHANGED <<outstanding, polls>>
     ELSE /\ out' = << Current \o <<"READTEMP">> >>
          /\ outstanding' = outstanding + 1
          /\ polls' = Count(polls)

\* A timer of line 48 or 228 fires: startDiscovery runs.
StartDiscoveryTimer(i) ==
  /\ timers[i].kind = "startDiscovery"
  /\ MayRun(i)
  /\ StartDiscovery(RemoveAt(timers, i))
  /\ UNCHANGED <<connected, deviceAddresses, deviceTemperatures, connectedDevices,
                 confirmationRetries, errorCounters, currentDeviceIndex, isSampling,
                 resets, frames, faults, outstanding, polls>>

NeedThreeDevices == Len(deviceAddresses) < discoveryTarget - 1

\* deviceAddresses.length < 4 (line 200)
NeedMoreDevices == Len(deviceAddresses) < discoveryTarget

\* The callback of lines 199-208 fires.
ReevalTimer(i) ==
  /\ timers[i].kind = "reeval"
  /\ MayRun(i)
  /\ IF NeedMoreDevices
     THEN /\ StartDiscovery(RemoveAt(timers, i))
          /\ UNCHANGED <<isSampling, outstanding, polls>>
     ELSE /\ isSampling' = TRUE
          /\ RequestTemperature(RemoveAt(timers, i), TRUE)
          /\ UNCHANGED <<discoveryAttempts, discoverSent>>
  /\ UNCHANGED <<connected, deviceAddresses, deviceTemperatures, connectedDevices,
                 confirmationRetries, errorCounters, currentDeviceIndex,
                 resets, frames, faults>>

\* A timer of line 133 or 165 fires: requestTemperature runs.
RequestTemperatureTimer(i) ==
  /\ timers[i].kind = "requestTemperature"
  /\ MayRun(i)
  /\ RequestTemperature(RemoveAt(timers, i), isSampling)
  /\ UNCHANGED <<connected, deviceAddresses, deviceTemperatures, connectedDevices,
                 confirmationRetries, errorCounters, discoveryAttempts,
                 currentDeviceIndex, isSampling, resets, frames, faults, discoverSent>>

(***************************************************************************)
(* sendConnectedMessage (lines 168-177).  The first pass of the loop runs  *)
(* in the caller; each await of line 174 is a timer that carries address   *)
(* and i, and resumes the loop when it fires.                              *)
(***************************************************************************)
ConnectedFrame(address) == address \o <<"CONNECTED">>

ConnectedTimer(i) ==
  LET t == timers[i]
      ts == RemoveAt(timers, i)
  IN  /\ t.kind = "connected"
      /\ MayRun(i)
      /\ IF t.i + 1 < connectedMessageRetries
         THEN /\ out' = <<ConnectedFrame(t.address)>>
              /\ timers' = Schedule(ts, "connected", confirmDelay, t.address, t.i + 1)
              /\ UNCHANGED connectedDevices
         ELSE /\ out' = <<>>
              /\ timers' = ts
              /\ connectedDevices' = Put(connectedDevices, t.address, TRUE)
      /\ UNCHANGED <<connected, deviceAddresses, deviceTemperatures,
                     confirmationRetries, errorCounters, discoveryAttempts,
                     currentDeviceIndex, isSampling, resets, frames, faults,
                     discoverSent, outstanding, polls>>

(***************************************************************************)
(* handleCorruptedData (lines 152-166).                                    *)
(***************************************************************************)
NextIndexUnwrapped == currentDeviceIndex + 1

\* (currentDeviceIndex + 1) % deviceAddresses.length (lines 130 and 161)
NextIndex == (currentDeviceIndex + 1) % Len(deviceAddresses)

TooManyErrors(n) == n > maxErrorCount

Attributable == HasCurrent /\ ~Falsy(Current)

HandleCorruptedData ==
  IF ~Attributable
  THEN /\ out' = <<>>
       /\ UNCHANGED <<errorCounters, currentDeviceIndex, timers, outstanding>>
  ELSE LET n == OrZero(errorCounters, Current) + 1
       IN  /\ errorCounters' = Put(errorCounters, Current, n)
           /\ currentDeviceIndex' = IF TooManyErrors(n) THEN NextIndex
                                    ELSE currentDeviceIndex
           /\ timers' = Schedule(timers, "requestTemperature", waitTime, NoAddress, 0)
           /\ out' = <<>>
           /\ outstanding' = 0

(***************************************************************************)
(* handleSerialData (lines 86-149) on one trimmed line.  A line is empty,  *)
(* has no comma, has a CRC that does not match, or carries message with a  *)
(* matching CRC.                                                           *)
(***************************************************************************)
Line(k, m) == [kind |-> k, message |-> m]

KnownReading(m) == Len(m) > 1 /\ Includes(<<m[1]>>)

IsUnconfirmed(m) == ~Truthy(connectedDevices, m)

\* !connectedDevices[message] && !deviceAddresses.includes(message) (line 140)
IsNewDevice(m) == ~Truthy(connectedDevices, m) /\ ~Includes(m)

HandleSerialData(line) ==
  LET m == line.message IN
  /\ connected
  /\ frames' = IF line.kind = "empty" THEN frames ELSE Count(frames)
  /\ UNCHANGED <<connected, discoveryAttempts, isSampling, resets, discoverSent, polls>>
  /\ CASE line.kind = "empty" ->
            /\ out' = <<>>
            /\ UNCHANGED <<deviceAddresses, deviceTemperatures, connectedDevices,
                           confirmationRetries, errorCounters, currentDeviceIndex,
                           timers, faults, outstanding>>
       [] line.kind \in {"nocomma", "badcrc"} ->
            /\ HandleCorruptedData
            /\ faults' = faults + 1
            /\ UNCHANGED <<deviceAddresses, deviceTemperatures, connectedDevices,
                           confirmationRetries>>
       [] line.kind = "valid" /\ KnownReading(m) ->
            /\ deviceTemperatures' = Put(deviceTemperatures, <<m[1]>>, m[2])
            /\ errorCounters' = Put(errorCounters, <<m[1]>>, 0)
            /\ currentDeviceIndex' = NextIndex
            /\ timers' = IF isSampling
                         THEN Schedule(timers, "requestTemperature", waitTime, NoAddress, 0)
                         ELSE timers
            /\ out' = <<>>
            /\ outstanding' = 0
            /\ UNCHANGED <<deviceAddresses, connectedDevices, confirmationRetries,
                           faults>>
       [] line.kind = "valid" /\ ~KnownReading(m) /\ IsNewDevice(m) ->
            /\ deviceAddresses' = Append(deviceAddresses, m)
            /\ deviceTemperatures' = Put(deviceTemperatures, m, "N/A")
            /\ errorCounters' = Put(errorCounters, m, 0)
            /\ confirmationRetries' = Put(confirmationRetries, m, 0)
            /\ connectedDevices' = Put(connectedDevices, m, FALSE)
            /\ out' = <<ConnectedFrame(m)>>
            /\ timers' = Schedule(timers, "connected", confirmDelay, m, 0)
            /\ UNCHANGED <<currentDeviceIndex, faults, outstanding>>
       [] OTHER ->
            /\ out' = <<>>
            /\ UNCHANGED <<deviceAddresses, deviceTemperatures, connectedDevices,
                           confirmationRetries, errorCounters, currentDeviceIndex,
                           timers, faults, outstanding>>

(***************************************************************************)
(* calculateCRC (lines 22-36) on a string of character codes.              *)
(***************************************************************************)
RECURSIVE Xor(_, _)
Xor(a, b) ==
  IF a = 0 THEN b
  ELSE IF b = 0 THEN a
  ELSE 2 * Xor(a \div 2, b \div 2) + ((a + b) % 2)

\* One pass of the loop of lines 26-33.
ShiftOnce(crc) ==
  IF (crc \div TopBit) % 2 = 1
  THEN Xor(crc * 2, Polynomial) % Word
  ELSE (crc * 2) % Word

RECURSIVE Shifts(_, _)
Shifts(crc, j) == IF j = 0 THEN crc ELSE Shifts(ShiftOnce(crc), j - 1)

RECURSIVE CrcFrom(_, _, _)
CrcFrom(crc, data, i) ==
  IF i > Len(data) THEN crc
  ELSE CrcFrom(Shifts(Xor(crc, data[i] * 256), 8), data, i + 1)

calculateCRC(data) == CrcFrom(InitialCrc, data, 1)

(***************************************************************************)
(* The frames written (lines 172, 196, 214, 237):                          *)
(* `${message},${crc.toString(16).toUpperCase()}\n`.                       *)
(***************************************************************************)
HexDigit(d) == IF d < 10 THEN 48 + d ELSE 55 + d

RECURSIVE ToHex(_)
ToHex(n) ==
  IF n < Radix THEN <<HexDigit(n)>>
  ELSE Append(ToHex(n \div Radix), HexDigit(n % Radix))

Encode(message) == message \o <<Comma>> \o ToHex(calculateCRC(message)) \o <<LineFeed>>

(***************************************************************************)
(* The receive path: TextDecoder (line 68), split and trim (lines 79-83),  *)
(* lastIndexOf, substring and parseInt (lines 101-110).                    *)
(***************************************************************************)
\* A byte that is not ASCII decodes to U+FFFD.
Decoded(bytes) ==
  [i \in 1..Len(bytes) |-> IF bytes[i] >= 128 THEN Replacement ELSE bytes[i]]

IsSpace(c) == c \in {9, 10, 11, 12, 13, 32}

RECURSIVE TrimStart(_)
TrimStart(str) ==
  IF str # <<>> /\ IsSpace(str[1]) THEN TrimStart(Tail(str)) ELSE str

RECURSIVE TrimEnd(_)
TrimEnd(str) ==
  IF str # <<>> /\ IsSpace(str[Len(str)])
  THEN TrimEnd(SubSeq(str, 1, Len(str) - 1))
  ELSE str

Trim(str) == TrimEnd(TrimStart(str))

\* serialBuffer.split("\n")
RECURSIVE Split(_)
Split(str) ==
  IF \E i \in 1..Len(str) : str[i] = LineFeed
  THEN LET i == CHOOSE i \in 1..Len(str) :
                   str[i] = LineFeed /\ \A j \in 1..(i - 1) : str[j] # LineFeed
       IN  <<SubSeq(str, 1, i - 1)>> \o Split(SubSeq(str, i + 1, Len(str)))
  ELSE <<str>>

\* data.lastIndexOf(','), counted from 1; 0 where the source has -1.
LastIndexOf(str, c) ==
  IF \E i \in 1..Len(str) : str[i] = c
  THEN CHOOSE i \in 1..Len(str) : str[i] = c /\ \A j \in (i + 1)..Len(str) : str[j] # c
  ELSE 0

IsHexDigit(c) == c \in 48..57 \/ c \in 65..70 \/ c \in 97..102

DigitValue(c) ==
  IF c \in 48..57 THEN c - 48
  ELSE IF c \in 65..70 THEN c - 55
  ELSE c - 87

RECURSIVE ParseDigits(_, _, _, _)
ParseDigits(str, i, value, any) ==
  IF i <= Len(str) /\ IsHexDigit(str[i])
  THEN ParseDigits(str, i + 1, value * Radix + DigitValue(str[i]), TRUE)
  ELSE [nan |-> ~any, value |-> value]

\* parseInt(str, 16): leading white space, a sign, a 0x prefix, then the
\* longest run of hexadecimal digits of either case; NaN when there is none.
ParseInt(str) ==
  LET t == TrimStart(str)
      signed == t # <<>> /\ t[1] \in {43, 45}
      u == IF signed THEN Tail(t) ELSE t
      v == IF Len(u) >= 2 /\ u[1] = 48 /\ u[2] \in {88, 120}
           THEN SubSeq(u, 3, Len(u))
           ELSE u
      r == ParseDigits(v, 1, 0, FALSE)
  IN  [nan |-> r.nan, value |-> IF signed /\ t[1] = 45 THEN 0 - r.value ELSE r.value]

\* handleSerialData up to line 118, on a non-empty trimmed line: what it
\* takes the line for, and the message it goes on with.
Judged(data) ==
  LET separatorIndex == LastIndexOf(data, Comma)
      message == SubSeq(data, 1, separatorIndex - 1)
      receivedCRC == ParseInt(SubSeq(data, separatorIndex + 1, Len(data)))
  IN  IF separatorIndex = 0 THEN Line("nocomma", data)
      ELSE IF receivedCRC.nan \/ calculateCRC(message) # receivedCRC.value
           THEN Line("badcrc", message)
           ELSE Line("valid", message)

RECURSIVE JudgedAll(_)
JudgedAll(lines) ==
  IF lines = <<>> THEN <<>>
  ELSE LET data == Trim(lines[1])
       IN  (IF data = <<>> THEN <<>> ELSE <<Judged(data)>>) \o JudgedAll(Tail(lines))

\* readSerialData (lines 62-69) gets the next n bytes, and
\* processSerialBuffer (lines 78-85) hands the complete lines on.
ReadChunk(n) ==
  LET value == SubSeq(wire, 1, n)
      lines == Split(serialBuffer \o Decoded(value))
  IN  /\ wire' = SubSeq(wire, n + 1, Len(wire))
      /\ serialBuffer' = lines[Len(lines)]
      /\ received' = received \o JudgedAll(SubSeq(lines, 1, Len(lines) - 1))
      /\ UNCHANGED sent

(***************************************************************************)
(* The bus.  A node announces its bare address at any time; a node answers *)
(* a READTEMP frame addressed to it, in the order the polls were written;  *)
(* noise on the bus is a damaged line at any time.                         *)
(***************************************************************************)
Noise == {Line(k, NoAddress) : k \in {"empty", "nocomma", "badcrc"}}

\* An address the state holds no trace of.  Such addresses are interchangeable,
\* so of the nodes that left no trace, the least one announces first.
Fresh(a) ==
  /\ a # ""
  /\ ~Includes(<<a>>)
  /\ <<a>> \notin DOMAIN connectedDevices
  /\ \A i \in 1..Len(timers) : timers[i].address # <<a>>
  /\ \A i \in 1..Len(asked) : asked[i] # <<a>>

Announcements(A) ==
  {Line("valid", <<a>>) : a \in {x \in A : Fresh(x) => \A y \in A : Fresh(y) => ~Less(y, x)}}

\* The node that was polled first answers first, with a reading or with a
\* line that arrives damaged.
Answers == {Line(k, <<asked[1][1], v>>) : k \in {"valid", "badcrc"}, v \in Values}

Corrupted(line) == line.kind \in {"nocomma", "badcrc"}

\* The nodes hear what the last step wrote: one more poll to answer for
\* each READTEMP frame addressed to a bare address.
IsPoll(f) == Len(f) = 2 /\ f[2] = "READTEMP"

Hears(q) ==
  asked' = IF out' # <<>> /\ IsPoll(out'[1])
           THEN Append(q, <<out'[1][1]>>)
           ELSE q

\* The exploration's limits on the bus: the lines delivered, the damaged
\* ones among them, and the callbacks pending when a line arrives.
MayDeliver(line, maxFrames, maxFaults) ==
  /\ frames < maxFrames
  /\ Corrupted(line) => faults < maxFaults
  /\ Len(timers) < MaxTimers

AnnounceOf(A, maxFrames) ==
  \E line \in Announcements(A) :
     /\ MayDeliver(line, maxFrames, 0)
     /\ HandleSerialData(line)
     /\ Hears(asked)
     /\ UNCHANGED codec

AnswerOf(maxFrames, maxFaults) ==
  /\ asked # <<>>
  /\ \E line \in Answers :
        /\ MayDeliver(line, maxFrames, maxFaults)
        /\ HandleSerialData(line)
        /\ Hears(Tail(asked))
        /\ UNCHANGED codec

GarbleOf(maxFrames, maxFaults) ==
  \E line \in Noise :
     /\ MayDeliver(line, maxFrames, maxFaults)
     /\ HandleSerialData(line)
     /\ Hears(asked)
     /\ UNCHANGED codec

\* ... and on the user: the reset clicks, and the callbacks pending at a click.
ClickOf(maxResets) ==
  /\ resets < maxResets
  /\ Len(timers) <= MaxStale
  /\ ResetClick
  /\ Hears(asked)
  /\ UNCHANGED codec

\* The callback would write a DISCOVER frame, were attempts left.
WouldDiscover(i) == timers[i].kind = "reeval" => NeedMoreDevices

(***************************************************************************)
(* Spec: four nodes, a few lines and reset clicks, a few discovery rounds.  *)
(***************************************************************************)
Connect ==
  /\ ConnectSerial
  /\ Hears(asked)
  /\ UNCHANGED codec

Click == ClickOf(MaxResets)

Announce == AnnounceOf(Addresses, MaxFrames)

Answer == AnswerOf(MaxFrames, MaxFaults)

Garble == GarbleOf(MaxFrames, MaxFaults)

DiscoveryStep ==
  \E i \in 1..Len(timers) :
     /\ WouldDiscover(i) => discoveryAttempts < MaxRounds
     /\ StartDiscoveryTimer(i) \/ ReevalTimer(i)
     /\ Hears(asked)
     /\ UNCHANGED codec

PollStep ==
  \E i \in 1..Len(timers) :
     /\ RequestTemperatureTimer(i)
     /\ Hears(asked)
     /\ UNCHANGED codec

HandshakeStep ==
  \E i \in 1..Len(timers) :
     /\ ConnectedTimer(i)
     /\ Hears(asked)
     /\ UNCHANGED codec

Next ==
  \/ Connect
  \/ Click
  \/ Announce
  \/ Answer
  \/ Garble
  \/ DiscoveryStep
  \/ PollStep
  \/ HandshakeStep

Spec == Init /\ [][Next]_vars

(***************************************************************************)
(* SpecCap: a bus on which fewer than four nodes ever announce, and every  *)
(* discovery round up to the cap.                                          *)
(***************************************************************************)
CapAddresses == {"A"}

CapClick == ClickOf(CapResets)

CapAnnounce == AnnounceOf(CapAddresses, CapFrames)

CapDiscoveryStep ==
  \E i \in 1..Len(timers) :
     /\ StartDiscoveryTimer(i) \/ ReevalTimer(i)
     /\ Hears(asked)
     /\ UNCHANGED codec

NextCap ==
  \/ Connect
  \/ CapClick
  \/ CapAnnounce
  \/ CapDiscoveryStep
  \/ HandshakeStep

SpecCap == Init /\ [][NextCap]_vars

(***************************************************************************)
(* SpecFault: a noisy bus during discovery, with a node whose address is   *)
(* the empty string among those that announce.                             *)
(***************************************************************************)
FaultAddresses == {"", "A"}

FaultAnnounce == AnnounceOf(FaultAddresses, FaultFrames)

FaultGarble == GarbleOf(FaultFrames, FaultLines)

NextFault ==
  \/ Connect
  \/ FaultAnnounce
  \/ FaultGarble
  \/ DiscoveryStep
  \/ PollStep
  \/ HandshakeStep

SpecFault == Init /\ [][NextFault]_vars

(***************************************************************************)
(* SpecReading: two nodes that also send address,value lines nobody asked  *)
(* for, before or after they announced themselves.                         *)
(***************************************************************************)
ReadAddresses == {"A", "B"}

Readings(A) == {Line("valid", <<a, v>>) : a \in A, v \in Values}

ReadAnnounce == AnnounceOf(ReadAddresses, ReadFrames)

Reading ==
  \E line \in Readings(ReadAddresses) :
     /\ MayDeliver(line, ReadFrames, 0)
     /\ HandleSerialData(line)
     /\ Hears(asked)
     /\ UNCHANGED codec

ReadGarble == GarbleOf(ReadFrames, MaxFaults)

ReadDiscoveryStep ==
  \E i \in 1..Len(timers) :
     /\ WouldDiscover(i) => discoveryAttempts < ReadRounds
     /\ StartDiscoveryTimer(i) \/ ReevalTimer(i)
     /\ Hears(asked)
     /\ UNCHANGED codec

NextReading ==
  \/ Connect
  \/ ReadAnnounce
  \/ Reading
  \/ ReadGarble
  \/ ReadDiscoveryStep
  \/ PollStep
  \/ HandshakeStep

SpecReading == Init /\ [][NextReading]_vars

(***************************************************************************)
(* SpecShake: one node that announces itself again and again, and reset    *)
(* clicks at any moment of its confirmation handshake.                     *)
(***************************************************************************)
ShakeAddresses == {"A"}

ShakeClick ==
  /\ resets < ShakeResets
  /\ Len(timers) < MaxTimers
  /\ ResetClick
  /\ Hears(asked)
  /\ UNCHANGED codec

ShakeAnnounce == AnnounceOf(ShakeAddresses, ShakeFrames)

NextShake ==
  \/ Connect
  \/ ShakeClick
  \/ ShakeAnnounce
  \/ DiscoveryStep
  \/ HandshakeStep

SpecShake == Init /\ [][NextShake]_vars

(***************************************************************************)
(* SpecCodec: one message is framed as the source frames it; the frame     *)
(* arrives whole, or with one bit of one CRC digit flipped, in chunks of   *)
(* any size.                                                               *)
(***************************************************************************)
Chars == {32, 44, 49, 65}

Messages == UNION {[1..n -> Chars] : n \in 0..MaxLen}

Sent(m, flip) == [message |-> m, flip |-> flip]

Intact == <<>>

\* The frame with bit b of its k-th CRC digit flipped.
Damaged(m, k, b) ==
  LET frame == Encode(m)
      at == Len(m) + 1 + k
  IN  [frame EXCEPT ![at] = Xor(frame[at], 2 ^ b)]

Send ==
  /\ sent = <<>>
  /\ \E m \in Messages :
        /\ wire' = Encode(m)
        /\ sent' = <<Sent(m, Intact)>>
  /\ UNCHANGED <<serialBuffer, received, engine>>

SendDamaged ==
  /\ sent = <<>>
  /\ \E m \in Messages :
        \E k \in 1..Len(ToHex(calculateCRC(m))), b \in 0..7 :
           /\ wire' = Damaged(m, k, b)
           /\ sent' = <<Sent(m, <<k, b>>)>>
  /\ UNCHANGED <<serialBuffer, received, engine>>

Receive ==
  /\ wire # <<>>
  /\ \E n \in 1..Len(wire) : ReadChunk(n)
  /\ UNCHANGED engine

NextCodec ==
  \/ Send
  \/ SendDamaged
  \/ Receive

SpecCodec == Init /\ [][NextCodec]_vars

(***************************************************************************)
(* SpecLive: four nodes, no reset click and no noise; every callback that  *)
(* is due runs in the end, and every READTEMP frame is answered in the     *)
(* end, by a reading or by a line that arrives damaged.                    *)
(***************************************************************************)
LiveAnnounce == AnnounceOf(Addresses, LiveFrames)

LiveAnswer ==
  /\ asked # <<>>
  /\ \E line \in Answers :
        /\ Corrupted(line) => faults < LiveFaults
        /\ HandleSerialData(line)
        /\ Hears(Tail(asked))
        /\ UNCHANGED codec

NextLive ==
  \/ Connect
  \/ LiveAnnounce
  \/ LiveAnswer
  \/ DiscoveryStep
  \/ PollStep
  \/ HandshakeStep

SpecLive ==
  /\ Init
  /\ [][NextLive]_vars
  /\ WF_vars(DiscoveryStep)
  /\ WF_vars(PollStep)
  /\ WF_vars(HandshakeStep)
  /\ WF_vars(LiveAnswer)

(***************************************************************************)
(* What the steps wrote and what is pending.                               *)
(***************************************************************************)
Wrote(f) == \E k \in 1..Len(out) : out[k] = f

WrotePoll == \E k \in 1..Len(out) : out[k][Len(out[k])] = "READTEMP"

DiscoveryTimers ==
  {i \in 1..Len(timers) : timers[i].kind \in {"startDiscovery", "reeval"}}

Pending(k) == \E i \in 1..Len(timers) : timers[i].kind = k

(***************************************************************************)
(* C1.  Discovery and sampling never overlap: no DISCOVER frame is written *)
(* while isSampling is true.                                               *)
(***************************************************************************)
C1_NoDiscoverWhileSampling == ~(isSampling /\ Wrote(<<"DISCOVER">>))

(***************************************************************************)
(* C2.  Exactly one poll request is outstanding at a time: between two     *)
(* consecutive frame resolutions (a reading from a known address, or a     *)
(* damaged line the fault handler attributes) at most one READTEMP frame   *)
(* is written.                                                             *)
(***************************************************************************)
C2_OnePollOutstanding == outstanding <= 1

(***************************************************************************)
(* C3.  At most one discovery round is in flight: at most one discovery    *)
(* timer (a scheduled startDiscovery or a scheduled re-evaluation) is      *)
(* pending.                                                                *)
(***************************************************************************)
C3_OneDiscoveryTimer == Cardinality(DiscoveryTimers) <= 1

(***************************************************************************)
(* C4.  Every address whose confirmed flag is true is in the Registry.     *)
(***************************************************************************)
C4_ConfirmedAreRegistered ==
  \A m \in DOMAIN connectedDevices : connectedDevices[m] => Includes(m)

(***************************************************************************)
(* C5.  Immediately after a reset click, from whatever state: a RESET      *)
(* frame was written, the Registry is empty, no device has a temperature,  *)
(* a confirmed flag or an errorCount, discoveryAttempts and cursor are 0,  *)
(* isSampling is false, and a startDiscovery callback has been scheduled.  *)
(***************************************************************************)
C5_AfterReset ==
  [][resets' = resets + 1 =>
        /\ out' = << <<"RESET">> >>
        /\ deviceAddresses' = <<>>
        /\ DOMAIN deviceTemperatures' = {}
        /\ DOMAIN connectedDevices' = {}
        /\ DOMAIN errorCounters' = {}
        /\ discoveryAttempts' = 0
        /\ currentDeviceIndex' = 0
        /\ isSampling' = FALSE
        /\ timers' = Append(timers, Timer("startDiscovery", resetDelay, NoAddress, 0))]_vars

\* A reset click that came while sampling was active: a poll is still unanswered.
C5_ResetWhileSampling ==
  /\ resets = 1
  /\ Wrote(<<"RESET">>)
  /\ asked # <<>>
  /\ Pending("requestTemperature")

(***************************************************************************)
(* C6.  Sampling never starts before the Registry holds 4 devices:         *)
(* isSampling implies a Registry of at least 4, and no READTEMP frame is   *)
(* written with fewer than 4 devices registered.                           *)
(***************************************************************************)
C6_SamplingNeedsFour ==
  /\ isSampling => Len(deviceAddresses) >= 4
  /\ WrotePoll => Len(deviceAddresses) >= 4

C6_SamplingStarted == isSampling /\ WrotePoll /\ polls = 1

(***************************************************************************)
(* C7.  Discovery attempt cap: discoveryAttempts never exceeds 1000, the   *)
(* DISCOVER frames written since the last reset number discoveryAttempts,  *)
(* and with fewer than 4 devices registered the discovery rounds stop (no  *)
(* discovery timer is left) only when exactly 1000 DISCOVER frames have    *)
(* been written, however many discovery timers were pending.               *)
(***************************************************************************)
C7_AttemptCap ==
  /\ discoveryAttempts <= maxDiscoveryAttempts
  /\ discoverSent = discoveryAttempts
  /\ (connected /\ DiscoveryTimers = {} /\ Len(deviceAddresses) < discoveryTarget)
        => discoverSent = maxDiscoveryAttempts

C7_Exhausted ==
  /\ discoverSent = maxDiscoveryAttempts
  /\ DiscoveryTimers = {}
  /\ Len(deviceAddresses) < discoveryTarget
  /\ out = <<>>

(***************************************************************************)
(* C8.  Round-robin coverage: with no fault and every poll answered by a   *)
(* reading from the polled device, the k-th READTEMP frame (k from 0) is   *)
(* addressed to the device at Registry index k mod n.                      *)
(***************************************************************************)
C8_RoundRobin ==
  (faults = 0 /\ WrotePoll) =>
     out[1] = deviceAddresses[((polls - 1) % Len(deviceAddresses)) + 1] \o <<"READTEMP">>

(***************************************************************************)
(* C9.  Fault isolation threshold: a damaged line received while the       *)
(* Registry is non-empty adds exactly 1 to the errorCount of the device at *)
(* cursor and changes no other; cursor moves to (cursor+1) mod size        *)
(* exactly when the new errorCount exceeds 5; the Registry keeps the       *)
(* device.                                                                 *)
(***************************************************************************)
FaultAttributed ==
  LET n == OrZero(errorCounters, Current) + 1 IN
  /\ Current \in DOMAIN errorCounters'
  /\ errorCounters'[Current] = n
  /\ \A m \in DOMAIN errorCounters' :
        m # Current => (m \in DOMAIN errorCounters /\ errorCounters'[m] = errorCounters[m])
  /\ currentDeviceIndex' = IF n > maxErrorCount
                           THEN (currentDeviceIndex + 1) % Len(deviceAddresses)
                           ELSE currentDeviceIndex
  /\ deviceAddresses' = deviceAddresses

C9_FaultThreshold ==
  [][(faults' = faults + 1 /\ Len(deviceAddresses) > 0) => FaultAttributed]_vars

\* The same for every device at cursor but the one whose address is the
\* empty string.
C9_FaultThresholdOfNamedDevice ==
  [][(faults' = faults + 1 /\ Len(deviceAddresses) > 0 /\ Current # <<"">>)
        => FaultAttributed]_vars

\* The sixth fault in a row has moved cursor past the device.
C9_Skipped ==
  /\ Len(deviceAddresses) = 2
  /\ currentDeviceIndex = 1
  /\ OrZero(errorCounters, deviceAddresses[1]) = maxErrorCount + 1

(***************************************************************************)
(* C10.  A damaged line received while isSampling is false changes no      *)
(* device's errorCount, does not move cursor, and has no READTEMP frame    *)
(* written.                                                                *)
(***************************************************************************)
C10_FaultInDiscoveryIsInert ==
  [][(faults' = faults + 1 /\ ~isSampling) =>
        /\ errorCounters' = errorCounters
        /\ currentDeviceIndex' = currentDeviceIndex
        /\ \A k \in 1..Len(out') : out'[k][Len(out'[k])] # "READTEMP"]_vars

(***************************************************************************)
(* C11.  A device's errorCount changes only while that device is the one   *)
(* at cursor: a line (damaged, or a reading) that changes the errorCount   *)
(* of an address changes that of the address at Registry index cursor,     *)
(* also when the reading comes from a known device that is not the one at  *)
(* cursor.                                                                 *)
(***************************************************************************)
C11_ErrorCountOnlyAtCursor ==
  [][(frames' = frames + 1 /\ deviceAddresses' = deviceAddresses) =>
        \A a \in DOMAIN errorCounters :
           errorCounters'[a] # errorCounters[a] => (HasCurrent /\ a = Current)]_vars

(***************************************************************************)
(* C12.  Confirmation handshake count: a handshake sends 3 CONNECTED       *)
(* frames, and the confirmed flag of a registered device is true only      *)
(* after the handshake its registration started has sent all 3 of them,    *)
(* also when the device was registered, reset away and registered again    *)
(* while the earlier handshake was still running.  A pending handshake     *)
(* timer with field i has sent i + 1 frames; handshakes of one address     *)
(* resume in the order they started, so where one of them has frames left  *)
(* to send, so has the youngest, that of the registration in force.        *)
(***************************************************************************)
Handshakes(a) == {i \in 1..Len(timers) : timers[i].kind = "connected" /\ timers[i].address = a}

C12_ConfirmedAfterThreeFrames ==
  /\ \A i \in 1..Len(timers) :
        timers[i].kind = "connected" => timers[i].i + 1 <= connectedMessageRetries
  /\ \A k \in 1..Len(deviceAddresses) :
        Truthy(connectedDevices, deviceAddresses[k]) =>
           \A i \in Handshakes(deviceAddresses[k]) : timers[i].i + 1 = connectedMessageRetries

(***************************************************************************)
(* C13.  Polling starts only once 4 devices are confirmed: while           *)
(* isSampling is true at least 4 devices of the Registry have their        *)
(* confirmed flag true, and a READTEMP frame is written only to a device   *)
(* whose confirmed flag is true.                                           *)
(***************************************************************************)
Confirmed == {k \in 1..Len(deviceAddresses) : Truthy(connectedDevices, deviceAddresses[k])}

C13_PollingNeedsFourConfirmed ==
  /\ isSampling => Cardinality(Confirmed) >= discoveryTarget
  /\ \A k \in 1..Len(out) :
        out[k][Len(out[k])] = "READTEMP" =>
           Truthy(connectedDevices, SubSeq(out[k], 1, Len(out[k]) - 1))

(***************************************************************************)
(* C14.  Address uniqueness: the Registry never holds an address twice,    *)
(* and a valid bare-address line for an address already in the Registry    *)
(* (pending or confirmed) leaves the Registry, all per-device state and    *)
(* cursor unchanged and has no CONNECTED frame written.                    *)
(***************************************************************************)
NoDuplicates ==
  \A i, j \in 1..Len(deviceAddresses) :
     deviceAddresses[i] = deviceAddresses[j] => i = j

DuplicateIsNoOp ==
  \A a \in Addresses :
     (Includes(<<a>>) /\ HandleSerialData(Line("valid", <<a>>))) =>
        /\ UNCHANGED <<deviceAddresses, deviceTemperatures, connectedDevices,
                       confirmationRetries, errorCounters, currentDeviceIndex>>
        /\ out' = <<>>

C14_AddressUniqueness == [][NoDuplicates' /\ DuplicateIsNoOp]_vars

\* The second of two lines was the announcement of a registered device.
C14_DuplicateAnnounced ==
  /\ resets = 0
  /\ frames = 2
  /\ faults = 0
  /\ Len(deviceAddresses) = 1
  /\ out = <<>>
  /\ \E i \in 1..Len(timers) : timers[i].kind = "connected" /\ timers[i].i = 0

C18_OnlyBareAddresses ==
  /\ \A k \in 1..Len(deviceAddresses) : Len(deviceAddresses[k]) = 1
  /\ \A i \in 1..Len(timers) : timers[i].kind = "connected" => Len(timers[i].address) = 1

(***************************************************************************)
(* C19.  Every valid bare-address line for an address that is not in the   *)
(* Registry has the address registered (errorCount 0, unconfirmed) and a   *)
(* confirmation handshake started, in every reachable state, in particular *)
(* for a device that announces itself again after a reset that interrupted *)
(* its earlier handshake.                                                  *)
(***************************************************************************)
C19_AnnouncementRegisters ==
  [][\A a \in Addresses :
        (~Includes(<<a>>) /\ HandleSerialData(Line("valid", <<a>>))) =>
           /\ deviceAddresses' = Append(deviceAddresses, <<a>>)
           /\ <<a>> \in DOMAIN errorCounters' /\ errorCounters'[<<a>>] = 0
           /\ <<a>> \in DOMAIN connectedDevices' /\ connectedDevices'[<<a>>] = FALSE
           /\ out' = <<ConnectedFrame(<<a>>)>>]_vars

(***************************************************************************)
(* C16.  CRC round-trip: for every message m (the empty one, and those     *)
(* with white space at either end, included), the frame m + ',' +          *)
(* uppercase-hex(CRC16(m)) + newline is received as exactly one line,      *)
(* whose message is m and whose CRC check passes.                          *)
(***************************************************************************)
Arrived == sent # <<>> /\ wire = <<>>

C16_RoundTrip ==
  (Arrived /\ sent[1].flip = Intact) => received = <<Line("valid", sent[1].message)>>

(***************************************************************************)
(* C17.  For every message and every single-bit flip in one character of   *)
(* the CRC digits of its frame, the received frame fails the CRC check: no *)
(* line of it is taken for valid.                                          *)
(***************************************************************************)
C17_FlippedCrcFails ==
  (Arrived /\ sent[1].flip # Intact) =>
     \A k \in 1..Len(received) : received[k].kind # "valid"

(***************************************************************************)
(* C20.  Polling progress: once sampling is active, with every due         *)
(* callback run and every READTEMP frame answered in the end and no reset, *)
(* every device is sent a READTEMP frame again and again: none is starved. *)
(***************************************************************************)
C20_PollingProgress ==
  \A a \in Addresses : [](isSampling => <>Wrote(<<a, "READTEMP">>))

====
